---- MODULE Spec2Model ----
(***************************************************************************)
(* Model of rsstotelegram.py: the startup self-test, the load of the state *)
(* file, the priming loop, the polling loop, and the helpers they call.    *)
(* One action is one handler or one loop iteration of main().              *)
(* feed_title_cache is written (lines 178, 210) and never read: it is left *)
(* out. The variables from ev on are history: they record what the steps   *)
(* did and change nothing the program does; track says which of them a     *)
(* specification records (Spec, SpecCycle, SpecItem, SpecAnnounced).       *)
(* SpecTwin runs a second process beside the first, on the same inputs and *)
(* with another mapping in its state file.                                 *)
(* SpecPreview applies the content preview of format_feed_message to       *)
(* entries drawn from PreviewEntries.                                      *)
(***************************************************************************)
EXTENDS Integers, Sequences, FiniteSets, TLC

\* ---------------------------------------------------------------- bounds
NumFeeds == 2       \* how many entries of RSS_FEEDS are configured
MaxLink == 2        \* how many distinct item links the feeds can publish

\* ---------------------------------------------------------------- values
None == "None"          \* Python None
Missing == "Missing"    \* an attribute or key the object does not have
JNull == "null"         \* JSON null in the state file
NoLink == "No Link"
NoTitle == "No Title"
PreviewLimit == 200     \* entry_content[:200]

\* RSS_FEEDS as configured, and one more entry ("Add more feeds here").
AllFeeds ==
  << [name |-> "Slashdot", url |-> "https://rss.slashdot.org/Slashdot/slashdotMain"],
     [name |-> "Phys.org", url |-> "https://phys.org/rss-feed/"],
     [name |-> "9to5 Linux", url |-> "https://9to5linux.com/feed/atom"],
     [name |-> "Feed 4", url |-> "https://example.org/feed4"] >>

RSS_FEEDS == SubSeq(AllFeeds, 1, NumFeeds)

FeedIdx == 1..NumFeeds
FeedUrls == {RSS_FEEDS[k].url : k \in FeedIdx}
OtherUrl == "https://old.example.org/rss"     \* a key of the file that is no configured feed

LinkNames == <<"http://a/1", "http://a/2", "http://a/3", "http://a/4">>
Links == {LinkNames[k] : k \in 1..MaxLink}

\* A value that json.load can return and that is not a dict (a JSON array).
JsonArray == [k \in {"[]"} |-> "[]"]
IsDict(m) == m # JsonArray
EmptyDict == [k \in {} |-> None]

\* ------------------------------------------------------- feed documents
AltHtml(h) == [rel |-> "alternate", type |-> "text/html", href |-> h]
Enclosure(h) == [rel |-> "enclosure", type |-> "audio/mpeg", href |-> h]

\* The link lists of the entries the feeds serve.
LinkLists ==
  { <<>>,
    <<AltHtml(LinkNames[1])>>,
    <<Enclosure(LinkNames[2]), AltHtml(LinkNames[1])>>,
    <<Enclosure(LinkNames[2]), AltHtml(Missing)>>,
    <<Enclosure(Missing)>> }

\* The entries the feeds serve: with a direct link, with and without title;
\* without a direct link, with every link list; with no field at all; and
\* with neither link nor title and one alternate link.
Entries ==
  [none : {FALSE}, link : Links, title : {"T", Missing}, links : {<<>>}]
  \cup [none : {FALSE}, link : {Missing}, title : {"T"}, links : LinkLists]
  \cup [none : {FALSE}, link : {Missing}, title : {Missing},
        links : {<<>>, <<AltHtml(LinkNames[1])>>}]

NoneEntry == [none |-> TRUE, link |-> Missing, title |-> Missing, links |-> <<>>]
NoneFeed == [none |-> TRUE, bozo |-> FALSE]
Feed(bozo) == [none |-> FALSE, bozo |-> bozo]

\* What feedparser.parse does: it raises, or returns a document; the documents
\* flagged as malformed are empty or hold a complete entry.
ParseOutcomes ==
  [raises : {TRUE}, bozo : {FALSE}, entries : {<<>>}]
  \cup [raises : {FALSE}, bozo : {FALSE}, entries : {<<>>} \cup {<<e>> : e \in Entries}]
  \cup [raises : {FALSE}, bozo : {TRUE},
        entries : {<<>>} \cup {<<e>> : e \in {x \in Entries : x.link # Missing /\ x.title # Missing}}]

\* bool(entry): an entry is a dict, falsy when it has no key at all.
Truthy(e) == ~e.none /\ (e.link # Missing \/ e.title # Missing \/ e.links # <<>>)

\* get_feed_and_latest_item without its try/except: the exception leaves the call.
get_feed_unguarded(doc) ==
  IF doc.raises
  THEN [feed |-> NoneFeed, entry |-> NoneEntry, raised |-> TRUE]
  ELSE IF doc.entries # <<>>
       THEN [feed |-> Feed(doc.bozo), entry |-> doc.entries[1], raised |-> FALSE]
       ELSE [feed |-> Feed(doc.bozo), entry |-> NoneEntry, raised |-> FALSE]

\* The pair get_feed_and_latest_item returns; raised says whether an exception
\* left the call instead (the except clause of line 59 catches every one).
get_feed_and_latest_item(doc) ==
  IF doc.raises
  THEN [feed |-> NoneFeed, entry |-> NoneEntry, raised |-> FALSE]
  ELSE IF doc.entries # <<>>
       THEN [feed |-> Feed(doc.bozo), entry |-> doc.entries[1], raised |-> FALSE]
       ELSE [feed |-> Feed(doc.bozo), entry |-> NoneEntry, raised |-> FALSE]

\* --------------------------------------------------------- formatting
AltHtmlAt(links) ==
  {k \in 1..Len(links) : links[k].rel = "alternate" /\ links[k].type = "text/html"}

FirstAltHtml(links) == CHOOSE k \in AltHtmlAt(links) : \A j \in AltHtmlAt(links) : k <= j

\* entry_url of format_feed_message (Missing stands for None while resolving).
EntryUrl(e) ==
  LET u0 == e.link
      u1 == IF u0 = Missing /\ e.links # <<>>
            THEN LET a == IF AltHtmlAt(e.links) # {}
                          THEN e.links[FirstAltHtml(e.links)].href
                          ELSE Missing
                 IN  IF a = Missing
                     THEN (IF e.links[1].href = Missing THEN NoLink ELSE e.links[1].href)
                     ELSE a
            ELSE u0
  IN  IF u1 = Missing THEN NoLink ELSE u1

format_feed_message(e) ==
  [title |-> IF e.title = Missing THEN NoTitle ELSE e.title, url |-> EntryUrl(e)]

\* ------------------------------------------------------ content preview
\* Strings are sequences of characters. A field of the entry is absent, or
\* holds a string; entry.content is absent or a list of dicts.
Absent == [has |-> FALSE, text |-> <<>>]
Str(t) == [has |-> TRUE, text |-> t]
NoContentList == [has |-> FALSE, items |-> <<>>]
ContentList(l) == [has |-> TRUE, items |-> l]
NoContentPreview ==
  <<"N", "o", " ", "C", "o", "n", "t", "e", "n", "t", " ", "P", "r", "e", "v", "i", "e", "w">>
Lt == <<"&", "l", "t", ";">>
Gt == <<"&", "g", "t", ";">>
Dots == <<".", ".", ".">>

\* s[:n]
Take(s, n) == SubSeq(s, 1, IF Len(s) < n THEN Len(s) ELSE n)

\* s.replace(old, new) for a one-character old: every occurrence is replaced,
\* the other characters are kept, in order (computed by halves).
RECURSIVE Replace(_, _, _)
Replace(s, old, new) ==
  IF s = <<>> THEN <<>>
  ELSE IF Len(s) = 1 THEN (IF s[1] = old THEN new ELSE s)
  ELSE LET h == Len(s) \div 2
       IN  Replace(SubSeq(s, 1, h), old, new) \o Replace(SubSeq(s, h + 1, Len(s)), old, new)

\* entry_content of format_feed_message, lines 119-127.
EntryContent(entry) ==
  IF entry.summary.has /\ entry.summary.text # <<>> THEN entry.summary.text
  ELSE IF entry.content.has /\ entry.content.items # <<>>
       THEN (IF entry.content.items[1].value.has
             THEN entry.content.items[1].value.text ELSE NoContentPreview)
       ELSE IF entry.description.has /\ entry.description.text # <<>>
            THEN entry.description.text
            ELSE NoContentPreview

\* A preview that escapes the whole text and cuts the escaped text.
PreviewEscapedFirst(entry) ==
  Take(Replace(Replace(EntryContent(entry), "<", Lt), ">", Gt), PreviewLimit) \o Dots

\* What line 141 puts after "Content Preview:" in message_text.
Preview(entry) ==
  Replace(Replace(Take(EntryContent(entry), PreviewLimit), "<", Lt), ">", Gt) \o Dots

\* The texts of the entries: of some length around the limit, made of one
\* letter but for the characters at the marked positions.
PreviewLens == {1, PreviewLimit - 1, PreviewLimit, PreviewLimit + 1, PreviewLimit + 3}
PreviewMarks == {1, PreviewLimit, PreviewLimit + 1}
PreviewChars == {"a", "<", ">", "&"}
PreviewTexts ==
  { [k \in 1..n |-> IF k \in PreviewMarks THEN m[k] ELSE "a"] :
      n \in PreviewLens, m \in [PreviewMarks -> PreviewChars] }

\* The entries: the text is the summary, or the value of the first content
\* with the summary absent or empty, or the description with both absent or
\* empty; and the entries with no text in any of them.
PreviewEntries ==
  { [summary |-> Str(t), content |-> NoContentList, description |-> Absent] :
      t \in PreviewTexts }
  \cup { [summary |-> s, content |-> ContentList(<<[value |-> Str(t)]>>),
          description |-> Absent] : s \in {Absent, Str(<<>>)}, t \in PreviewTexts }
  \cup { [summary |-> s, content |-> c, description |-> Str(t)] :
          s \in {Absent, Str(<<>>)}, c \in {NoContentList, ContentList(<<>>)},
          t \in PreviewTexts }
  \cup { [summary |-> Absent, content |-> c, description |-> Absent] :
          c \in {NoContentList, ContentList(<<[value |-> Absent]>>)} }
NoPreviewEntry == [summary |-> Absent, content |-> NoContentList, description |-> Absent]

\* --------------------------------------------------------- state store
Get(m, u) == IF u \in DOMAIN m THEN m[u] ELSE None
\* An assignment that is lost.
PutLost(m, u, v) == m
\* An assignment that keeps the value of a key the mapping already has.
PutIfAbsent(m, u, v) == [k \in DOMAIN m \cup {u} |-> IF k \in DOMAIN m THEN m[k] ELSE v]
Put(m, u, v) == [k \in DOMAIN m \cup {u} |-> IF k = u THEN v ELSE m[k]]

\* A dump that leaves out the keys whose value is None.
DumpWithoutNone(m) ==
  IF IsDict(m) THEN [k \in {u \in DOMAIN m : m[u] # None} |-> m[k]] ELSE m

\* json.dump and json.load of a mapping from strings to strings or None.
Dump(m) == IF IsDict(m) THEN [k \in DOMAIN m |-> IF m[k] = None THEN JNull ELSE m[k]] ELSE m
Parse(j) == IF IsDict(j) THEN [k \in DOMAIN j |-> IF j[k] = JNull THEN None ELSE j[k]] ELSE j

NoFile == [kind |-> "absent", value |-> EmptyDict]
Garbage == [kind |-> "garbage", value |-> EmptyDict]
JsonFile(m) == [kind |-> "json", value |-> Dump(m)]

\* load_last_entries: the mapping held after the call, given the one held before.
load_last_entries(f, before) ==
  IF f.kind = "absent" THEN before
  ELSE IF f.kind = "garbage" THEN EmptyDict
  ELSE Parse(f.value)

SaveOutcomes == {"ok", "open_fails", "write_fails"}

\* A save that returns without writing.
save_nothing(f, m, how) == f

\* save_last_entries: the file after the call; the call raises unless how = "ok".
save_last_entries(f, m, how) ==
  IF how = "ok" THEN JsonFile(m)
  ELSE IF how = "open_fails" THEN f
  ELSE Garbage

\* The mappings a state file left by an earlier run or by the operator can hold
\* at the first start: any keys, each with null or with the first link.
InitMaps ==
  { m \in UNION {[D -> {LinkNames[1], None}] : D \in SUBSET (FeedUrls \cup {OtherUrl})} :
      OtherUrl \in DOMAIN m => m[OtherUrl] = LinkNames[1] }

InitFiles == {NoFile, Garbage, [kind |-> "json", value |-> JsonArray]}
             \cup {JsonFile(m) : m \in InitMaps}

\* ---------------------------------------------------------------- state
VARIABLES
  pc,            \* where main() is: test, load, summary, prime, prime_save, poll, sleep,
                 \* exited (main returned), crashed (an exception left main)
  i,             \* index in RSS_FEEDS of the feed the running loop handles next
  last_entries,  \* the global mapping feed url -> last seen link
  file,          \* the content of LAST_ENTRIES_FILE
  ev,            \* what the last step did: its inputs, the messages it sent, its save
  run,           \* what the running process has done since it started
  lastSent,      \* per feed, the link of the last item message sent in this run
  announced,     \* per feed, the link of the last item message delivered in this run
  itemSent,      \* the messages sent about one item, over all runs: 0, 1 or 2 for more
  polled,        \* per feed, the identifier its last polling fetch of this run returned
  cycSame,       \* every fetch of the current polling cycle has returned the
                 \* identifier that the fetch of the cycle before returned
  cycSent,       \* the messages sent so far in the current polling cycle
  cycWrites,     \* the writes of the file so far in the current polling cycle
  cycMuts,       \* the assignments to the mapping so far in the current polling cycle
  track,         \* which of the histories above this specification records
  twin,          \* SpecTwin: the process started with another state file and given
                 \* the same fetch results, send outcomes and save outcomes
  preview_entry, \* SpecPreview: the entry format_feed_message is called with
  preview        \* SpecPreview: the content preview it has put in message_text

hist == <<run, lastSent, announced, itemSent, track>>
cyc == <<polled, cycSame, cycSent, cycWrites, cycMuts>>
fmt == <<preview_entry, preview>>
vars == <<pc, i, last_entries, file, ev, run, lastSent, announced, itemSent,
          polled, cycSame, cycSent, cycWrites, cycMuts, track, twin,
          preview_entry, preview>>

NoRes == [feed |-> NoneFeed, entry |-> NoneEntry, raised |-> FALSE]
Msg(kind, k, m, ok) == [kind |-> kind, feed |-> k, title |-> m.title, url |-> m.url, ok |-> ok]
PlainMsg(kind, ok) == [kind |-> kind, feed |-> 0, title |-> "", url |-> "", ok |-> ok]
Event(op, k, res, sent, save) ==
  [op |-> op, feed |-> k, res |-> res, sent |-> sent, save |-> save]

FreshRun == [loaded |-> FALSE, fetched |-> FALSE, written |-> FALSE, notified |-> FALSE]
NoneSent == [k \in FeedIdx |-> None]
Unfetched == "unfetched"
NonePolled == [k \in FeedIdx |-> Unfetched]

\* The item whose messages itemSent counts: the first link, in the first feed
\* (the program treats all feeds and all links alike).
item == [feed |-> 1, link |-> LinkNames[1]]

\* The identifier main() reads from a fetch result: latest_entry.link, if any entry.
FetchedId(res) == IF Truthy(res.entry) THEN res.entry.link ELSE None

\* The mapping in the state file of the second process at its first start.
TwinMaps == {EmptyDict}

\* A process before its start: what main() works on, and the messages of its
\* last step.
Process(f) == [pc |-> "test", i |-> 1, last_entries |-> EmptyDict, file |-> f, sent |-> <<>>]

InitWith(tr) ==
  /\ track = tr
  /\ pc = "test"
  /\ i = 1
  /\ last_entries = EmptyDict
  /\ file \in InitFiles
  /\ ev = Event("init", 0, NoRes, <<>>, "none")
  /\ run = FreshRun
  /\ lastSent = NoneSent
  /\ announced = NoneSent
  /\ itemSent = 0
  /\ polled = NonePolled
  /\ cycSame = TRUE
  /\ cycSent = 0
  /\ cycWrites = 0
  /\ cycMuts = 0
  /\ preview_entry = NoPreviewEntry
  /\ preview = <<>>
  /\ twin \in IF "twin" \in tr THEN {Process(JsonFile(m)) : m \in TwinMaps}
              ELSE {Process(NoFile)}

Init == InitWith({})
InitCycle == InitWith({"cycle"})
InitItem == InitWith({"sent", "item"})
InitAnnounced == InitWith({"announced"})

\* The history of item messages after a step that sent `sent` for feed k.
Record(sent, k) ==
  /\ lastSent' = IF sent # <<>> /\ "sent" \in track
                 THEN [lastSent EXCEPT ![k] = sent[1].url] ELSE lastSent
  /\ announced' = IF sent # <<>> /\ sent[1].ok /\ "announced" \in track
                  THEN [announced EXCEPT ![k] = sent[1].url] ELSE announced
  /\ itemSent' = IF /\ sent # <<>> /\ "item" \in track
                    /\ item = [feed |-> k, link |-> sent[1].url]
                    /\ itemSent < 2
                 THEN itemSent + 1 ELSE itemSent

\* The second process takes the step the first one takes, as long as it is at
\* the same place.
Twin(next) == twin' = IF "twin" \in track /\ twin.pc = pc THEN next ELSE twin

\* The history of the polling cycles, where it is recorded.
Cycle(ids, same, nsent, nwrites, nmuts) ==
  /\ polled' = IF "cycle" \in track THEN ids ELSE polled
  /\ cycSame' = IF "cycle" \in track THEN same ELSE cycSame
  /\ cycSent' = IF "cycle" \in track THEN nsent ELSE cycSent
  /\ cycWrites' = IF "cycle" \in track THEN nwrites ELSE cycWrites
  /\ cycMuts' = IF "cycle" \in track THEN nmuts ELSE cycMuts

\* ---------------------------------------------------------------- actions
\* A connection test that reports success whatever the send returned.
test_connection_passes(ok) == TRUE

\* test_telegram_connection returns what send_telegram_message returned.
test_telegram_connection(ok) == ok

\* A main that does not read the result of the connection test.
AfterTestIgnored(passed) == "load"

\* main(), lines 152-154: where main goes after the connection test.
AfterTest(passed) == IF passed THEN "load" ELSE "exited"

\* main(), lines 151-154: the connection test; main returns when it fails.
TestConnection ==
  /\ pc = "test"
  /\ \E ok \in BOOLEAN :
       /\ ev' = Event("test", 0, NoRes, <<PlainMsg("test", ok)>>, "none")
       /\ pc' = AfterTest(test_telegram_connection(ok))
       /\ Twin([twin EXCEPT !.pc = AfterTest(test_telegram_connection(ok)),
                            !.sent = <<PlainMsg("test", ok)>>])
  /\ UNCHANGED <<i, last_entries, file, hist, cyc, fmt>>

\* main(), line 157.
Load ==
  /\ pc = "load"
  /\ last_entries' = load_last_entries(file, last_entries)
  /\ pc' = "summary"
  /\ ev' = Event("load", 0, NoRes, <<>>, "none")
  /\ run' = [run EXCEPT !.loaded = TRUE]
  /\ Twin([twin EXCEPT !.last_entries = load_last_entries(twin.file, twin.last_entries),
                       !.pc = "summary", !.sent = <<>>])
  /\ UNCHANGED <<i, file, lastSent, announced, itemSent, track, cyc, fmt>>

\* main(), lines 160-168: the startup summary message; its result is not read.
Summary ==
  /\ pc = "summary"
  /\ \E ok \in BOOLEAN :
       /\ ev' = Event("summary", 0, NoRes, <<PlainMsg("summary", ok)>>, "none")
       /\ Twin([twin EXCEPT !.pc = "prime", !.i = 1, !.sent = <<PlainMsg("summary", ok)>>])
  /\ pc' = "prime"
  /\ i' = 1
  /\ UNCHANGED <<last_entries, file, hist, cyc, fmt>>

\* main(), lines 170-194: one iteration of the startup confirmation loop, for
\* feed k with the mapping m: what was fetched and sent, whether an exception
\* left main, the mapping after it and where main goes on.
PrimeIter(m, k, doc, ok) ==
  LET res == get_feed_and_latest_item(doc)
      e == res.entry
      url == RSS_FEEDS[k].url
      \* lines 180-188: the confirmation; what the send returns is not read
      sent == IF Truthy(e) /\ ~res.raised
              THEN <<Msg("confirm", k, format_feed_message(e), ok)>>
              ELSE <<>>
      \* latest_entry.link raises AttributeError, item assignment on a
      \* non-dict raises TypeError
      raises == res.raised \/ (Truthy(e) /\ e.link = Missing) \/ ~IsDict(m)
  IN  [res |-> res, sent |-> sent,
       map |-> IF raises THEN m ELSE Put(m, url, IF Truthy(e) THEN e.link ELSE None),
       pc |-> IF raises THEN "crashed" ELSE IF k = NumFeeds THEN "prime_save" ELSE "prime",
       i |-> IF raises THEN k ELSE IF k = NumFeeds THEN 1 ELSE k + 1]

PrimeFeed ==
  /\ pc = "prime"
  /\ \E doc \in ParseOutcomes :
     \E ok \in IF Truthy(get_feed_and_latest_item(doc).entry) THEN BOOLEAN ELSE {TRUE} :
     \E it \in {PrimeIter(last_entries, i, doc, ok)} :
     \E tw \in {IF "twin" \in track THEN PrimeIter(twin.last_entries, twin.i, doc, ok) ELSE it} :
           /\ ev' = Event("prime", i, it.res, it.sent, "none")
           /\ Record(it.sent, i)
           /\ run' = [run EXCEPT !.fetched = TRUE, !.notified = @ \/ it.sent # <<>>]
           /\ last_entries' = it.map
           /\ pc' = it.pc
           /\ i' = it.i
           /\ Twin([twin EXCEPT !.last_entries = tw.map, !.pc = tw.pc, !.i = tw.i,
                                !.sent = tw.sent])
  /\ UNCHANGED <<file, track, cyc, fmt>>

\* main(), line 196: the one save after the startup confirmation loop.
PrimeSave ==
  /\ pc = "prime_save"
  /\ \E how \in SaveOutcomes :
       /\ file' = save_last_entries(file, last_entries, how)
       /\ ev' = Event("prime_save", 0, NoRes, <<>>, how)
       /\ pc' = IF how = "ok" THEN "poll" ELSE "crashed"
       /\ Twin([twin EXCEPT !.file = save_last_entries(twin.file, twin.last_entries, how),
                            !.pc = IF how = "ok" THEN "poll" ELSE "crashed",
                            !.i = 1, !.sent = <<>>])
  /\ run' = [run EXCEPT !.written = TRUE]
  /\ i' = 1
  /\ Cycle(NonePolled, TRUE, 0, 0, 0)
  /\ UNCHANGED <<last_entries, lastSent, announced, itemSent, track, fmt>>

\* A comparison that finds every fetched item new.
IsNewAlways(cur, link) == TRUE

\* The test of line 213 for the stored link cur; it reads latest_entry.link
\* only when cur is not None.
IsNew(cur, link) == cur = None \/ link # cur

\* Line 213 reads latest_entry.link unless the stored link is None: AttributeError.
Raises213(cur, e) == Truthy(e) /\ cur # None /\ e.link = Missing

\* Lines 212-213: the iteration takes the "New item found" branch.
New(cur, e) == Truthy(e) /\ ~Raises213(cur, e) /\ IsNew(cur, e.link)

\* Line 214 reads latest_entry.title: AttributeError.
Raises214(cur, e) == New(cur, e) /\ e.title = Missing

\* An iteration that sends whatever was fetched and stored.
SendsAnyway(cur, e) == TRUE

\* The iteration reaches the send of line 218.
Sends(cur, e) == New(cur, e) /\ ~Raises214(cur, e)

\* Line 225 reads latest_entry.link again: AttributeError, after the send.
Raises225(cur, e) == Sends(cur, e) /\ e.link = Missing

\* The iteration reaches the save of line 226.
Saves(cur, e) == Sends(cur, e) /\ ~Raises225(cur, e)

\* main(), lines 201-230: one iteration of the polling loop's for, for feed k
\* with the mapping m and the file f: what was fetched and sent, whether the
\* save was reached, the mapping and the file after it and where main goes on.
PollIter(m, f, k, doc, ok, how) ==
  LET res == get_feed_and_latest_item(doc)
      e == res.entry
      url == RSS_FEEDS[k].url
      cur == Get(m, url)
      sends == ~res.raised /\ Sends(cur, e)
      saves == ~res.raised /\ Saves(cur, e)
      raises == \/ res.raised
                \/ Raises213(cur, e) \/ Raises214(cur, e) \/ Raises225(cur, e)
                \/ (saves /\ how # "ok")
  IN  [res |-> res,
       sent |-> IF sends THEN <<Msg("item", k, format_feed_message(e), ok)>> ELSE <<>>,
       saves |-> saves,
       map |-> IF saves THEN Put(m, url, e.link) ELSE m,
       file |-> IF saves THEN save_last_entries(f, Put(m, url, e.link), how) ELSE f,
       pc |-> IF raises THEN "crashed" ELSE IF k = NumFeeds THEN "sleep" ELSE "poll",
       i |-> IF raises THEN k ELSE IF k = NumFeeds THEN 1 ELSE k + 1]

PollFeed ==
  /\ pc = "poll"
  /\ \E doc \in ParseOutcomes :
     \E try \in {PollIter(last_entries, file, i, doc, TRUE, "ok")} :
     \E ok \in IF try.sent # <<>> THEN BOOLEAN ELSE {TRUE},
        how \in IF try.saves THEN SaveOutcomes ELSE {"ok"} :
     \E it \in {PollIter(last_entries, file, i, doc, ok, how)} :
     \E tw \in {IF "twin" \in track
                THEN PollIter(twin.last_entries, twin.file, twin.i, doc, ok, how) ELSE it} :
                 /\ ev' = Event("poll", i, it.res, it.sent, IF it.saves THEN how ELSE "none")
                 /\ Record(it.sent, i)
                 /\ run' = [run EXCEPT !.fetched = TRUE, !.notified = @ \/ it.sent # <<>>,
                                       !.written = @ \/ it.saves]
                 /\ last_entries' = it.map
                 /\ file' = it.file
                 /\ Cycle([polled EXCEPT ![i] = FetchedId(it.res)],
                          cycSame /\ polled[i] = FetchedId(it.res), cycSent + Len(it.sent),
                          cycWrites + (IF it.saves THEN 1 ELSE 0),
                          cycMuts + (IF it.saves THEN 1 ELSE 0))
                 /\ pc' = it.pc
                 /\ i' = it.i
                 /\ Twin([twin EXCEPT !.last_entries = tw.map, !.file = tw.file,
                                      !.pc = tw.pc, !.i = tw.i, !.sent = tw.sent])
  /\ UNCHANGED <<track, fmt>>

\* main(), lines 232-233 and the next turn of while True.
Sleep ==
  /\ pc = "sleep"
  /\ pc' = "poll"
  /\ i' = 1
  /\ ev' = Event("sleep", 0, NoRes, <<>>, "none")
  /\ Twin([twin EXCEPT !.pc = "poll", !.i = 1, !.sent = <<>>])
  /\ Cycle(polled, TRUE, 0, 0, 0)
  /\ UNCHANGED <<last_entries, file, hist, fmt>>

\* The process is stopped (or has ended) and is started again: the globals of
\* lines 21-22 are fresh, the file is what the last run left.
Restart ==
  /\ pc # "test"
  /\ pc' = "test"
  /\ i' = 1
  /\ last_entries' = EmptyDict
  /\ ev' = Event("restart", 0, NoRes, <<>>, "none")
  /\ twin' = IF "twin" \in track THEN Process(twin.file) ELSE twin
  /\ run' = FreshRun
  /\ lastSent' = NoneSent
  /\ announced' = NoneSent
  /\ Cycle(NonePolled, TRUE, 0, 0, 0)
  /\ UNCHANGED <<file, itemSent, track, fmt>>

Next ==
  \/ TestConnection
  \/ Load
  \/ Summary
  \/ PrimeFeed
  \/ PrimeSave
  \/ PollFeed
  \/ Sleep
  \/ Restart

Spec == Init /\ [][Next]_vars
SpecCycle == InitCycle /\ [][Next]_vars
SpecItem == InitItem /\ [][Next]_vars
SpecAnnounced == InitAnnounced /\ [][Next]_vars

\* Two processes whose state files hold valid mappings, not the same one: any
\* mapping for the first, the empty one for the second (two processes that
\* both do what the second does do the same).
InitTwin ==
  /\ InitWith({"twin"})
  /\ file \in {JsonFile(m) : m \in InitMaps}
  /\ twin.file # file
SpecTwin == InitTwin /\ [][Next]_vars

\* format_feed_message is called with an entry and builds the content preview.

InitPreview ==
  /\ track = {} /\ pc = "format" /\ i = 1 /\ last_entries = EmptyDict /\ file = NoFile
  /\ ev = Event("init", 0, NoRes, <<>>, "none")
  /\ run = FreshRun /\ lastSent = NoneSent /\ announced = NoneSent /\ itemSent = 0
  /\ polled = NonePolled /\ cycSame = TRUE /\ cycSent = 0 /\ cycWrites = 0 /\ cycMuts = 0
  /\ preview_entry \in PreviewEntries
  /\ preview = <<>>
  /\ twin = Process(NoFile)

FormatPreview ==
  /\ pc = "format"
  /\ preview' = Preview(preview_entry)
  /\ pc' = "formatted"
  /\ UNCHANGED <<i, last_entries, file, ev, hist, cyc, twin, preview_entry>>

\* The next call, with another entry.
FormatNext ==
  /\ pc = "formatted"
  /\ preview_entry' \in PreviewEntries
  /\ preview' = <<>>
  /\ pc' = "format"
  /\ UNCHANGED <<i, last_entries, file, ev, hist, cyc, twin>>

NextPreview == FormatPreview \/ FormatNext
SpecPreview == InitPreview /\ [][NextPreview]_vars

\* ---------------------------------------------------------------- claims
UrlOf(k) == RSS_FEEDS[k].url
PollStep == ev'.op = "poll"
PrimeStep == ev'.op = "prime"
Fetched == ev'.res.entry
HasItem == Truthy(ev'.res.entry)
FailedSend == ev'.sent # <<>> /\ ~ev'.sent[1].ok

\* C1: a polling step whose notification is not delivered (send returns false)
\* leaves the stored identifiers and the state file as they were.
C1_FailedSendKeepsState ==
  [][(PollStep /\ FailedSend) => (last_entries' = last_entries /\ file' = file)]_vars

\* C2: every item that becomes the newest item of a feed causes exactly one
\* notification, over all cycles and runs: the item is never announced a second
\* time, and it is announced once it has been fetched as the newest item.
C2_ExactlyOnce ==
  /\ itemSent <= 1
  /\ (ev.op \in {"prime", "poll"} /\ ev.feed = item.feed /\ FetchedId(ev.res) = item.link)
       => itemSent >= 1

\* C2, amended: within one run a polling step sends at most one notification,
\* and never one about the item of the last notification sent for that feed;
\* priming sends at most one confirmation per feed and run.
C2_NotTwiceInARow ==
  [][/\ (PollStep \/ PrimeStep) => Len(ev'.sent) <= 1
     /\ (PollStep /\ ev'.sent # <<>>) => ev'.sent[1].url # lastSent[ev'.feed]
     /\ (PrimeStep /\ ev'.sent # <<>>) => lastSent[ev'.feed] = None]_vars

\* An item is announced by a polling step for the second time: it was the newest
\* item before, and another item was announced in between or in an earlier run.
C2_Witness ==
  /\ ev.op = "poll" /\ ev.sent # <<>> /\ ev.sent[1].ok
  /\ ev.feed = item.feed /\ ev.sent[1].url = item.link
  /\ itemSent = 2

\* C3: a polling step for a feed whose stored identifier is A and whose fetch
\* returns an item with a link B different from A sends exactly one notification,
\* for that item, and leaves B stored in memory and in the state file.
C3_ChangeDetected ==
  [][(/\ PollStep /\ HasItem /\ Fetched.link # Missing
      /\ Get(last_entries, UrlOf(ev'.feed)) # None
      /\ Get(last_entries, UrlOf(ev'.feed)) # Fetched.link)
       => /\ Len(ev'.sent) = 1
          /\ ev'.sent[1].url = Fetched.link
          /\ Get(last_entries', UrlOf(ev'.feed)) = Fetched.link
          /\ file' = JsonFile(last_entries')]_vars

\* C4: a polling cycle that fetched, for every feed, the identifier the cycle
\* before it fetched has sent no notification, written the file zero times and
\* assigned nothing to the mapping, which is as that cycle left it.
C4_IdempotentCycle ==
  (pc = "sleep" /\ cycSame) => (cycSent = 0 /\ cycWrites = 0 /\ cycMuts = 0)

\* Two cycles in a row have fetched an item for every feed, the same ones.
C4_Witness ==
  /\ pc = "sleep" /\ cycSame
  /\ \A k \in FeedIdx : polled[k] \in Links

\* C5: priming a feed that has no stored identifier, with a fetch that returns
\* an item, sends one startup confirmation for the item and stores the item's
\* identifier, which the save that ends priming writes to the file; a polling
\* step that then fetches the stored item sends nothing, and one that fetches
\* another item sends exactly one notification and stores the new identifier.
C5_PrimingBaseline ==
  [][/\ (PrimeStep /\ HasItem /\ Get(last_entries, UrlOf(ev'.feed)) = None)
          => /\ Len(ev'.sent) = 1
             /\ ev'.sent[1].kind = "confirm"
             /\ ev'.sent[1].url = EntryUrl(Fetched)
             /\ pc' # "crashed"
             /\ Get(last_entries', UrlOf(ev'.feed)) = EntryUrl(Fetched)
     /\ ev'.op = "prime_save" => file' = JsonFile(last_entries)
     /\ (PollStep /\ HasItem /\ EntryUrl(Fetched) = Get(last_entries, UrlOf(ev'.feed)))
          => ev'.sent = <<>>
     /\ (PollStep /\ HasItem /\ EntryUrl(Fetched) # Get(last_entries, UrlOf(ev'.feed)))
          => /\ Len(ev'.sent) = 1
             /\ Get(last_entries', UrlOf(ev'.feed)) = EntryUrl(Fetched)]_vars

\* C6: when the self-test fails main returns at once: the process has loaded
\* nothing, fetched no feed, sent no item message and written no file, the file
\* is as it was, and nothing more happens until the process is started again.
C6_SelfTestFatal ==
  /\ [](pc = "exited" => (run = FreshRun /\ last_entries = EmptyDict))
  /\ [][(pc = "test" /\ ev'.op = "test" /\ FailedSend)
          => (pc' = "exited" /\ file' = file /\ Len(ev'.sent) = 1)]_vars
  /\ [][pc = "exited" => (ev'.op = "restart" /\ file' = file)]_vars

\* The self-test has failed with a state file of an earlier run in place.
C6_Witness ==
  /\ pc = "exited" /\ ev.op = "test" /\ ~ev.sent[1].ok
  /\ file.kind = "json" /\ file.value # Dump(EmptyDict)

\* C7: a fetch that raises gives (None, None) and the exception does not leave
\* the call; the polling iteration sends and stores nothing, does not end the
\* process, and the loop goes on with the next feed of the cycle.
C7_FetchErrorIsolated ==
  [][((PollStep \/ PrimeStep) /\ (ev'.res.feed.none \/ ev'.res.raised))
       => /\ ev'.res = NoRes
          /\ ev'.sent = <<>>
          /\ PollStep
               => /\ last_entries' = last_entries /\ file' = file
                  /\ IF i < NumFeeds THEN pc' = "poll" /\ i' = i + 1
                     ELSE pc' = "sleep"]_vars

\* The fetch of the first feed has raised in a polling cycle and the second feed
\* is the next to be fetched.
C7_Witness ==
  /\ ev.op = "poll" /\ ev.feed = 1 /\ ev.res.feed.none
  /\ pc = "poll" /\ i = 2

\* C8: every step of priming or polling that changes the mapping in memory
\* leaves the whole mapping written in the state file.
C8_EveryMutationWritten ==
  [][((PollStep \/ PrimeStep) /\ last_entries' # last_entries)
       => file' = JsonFile(last_entries')]_vars

\* C8, amended: a polling step that changes the mapping calls save in the same
\* step: the file then holds the whole mapping, or the save has failed and the
\* process has ended. A priming step writes nothing; one save after the last
\* feed writes the mapping priming has built.
C8_PollingWritesEachUpdate ==
  [][/\ (PollStep /\ last_entries' # last_entries)
          => /\ ev'.save # "none"
             /\ ev'.save = "ok" => file' = JsonFile(last_entries')
             /\ ev'.save # "ok" => pc' = "crashed"
     /\ PrimeStep => (file' = file /\ ev'.save = "none")
     /\ (ev'.op = "prime_save" /\ ev'.save = "ok") => file' = JsonFile(last_entries)]_vars

\* A polling step has stored a new link for the first feed and written it, and
\* the second feed is the next to be fetched.
C8_Witness ==
  /\ ev.op = "poll" /\ ev.feed = 1 /\ ev.save = "ok"
  /\ pc = "poll" /\ i = 2
  /\ file = JsonFile(last_entries)
  /\ Get(last_entries, UrlOf(1)) = ev.res.entry.link

\* C9: when a polling step has finished with a feed, the stored identifier of
\* the feed is the one of the item most recently announced for it, and is absent
\* when none has been (none delivered, or none ever retrieved).
C9_StoredIsAnnounced ==
  [][(PollStep /\ pc' # "crashed")
       => Get(last_entries', UrlOf(ev'.feed)) = announced'[ev'.feed]]_vars

\* C10: an entry without a direct link is processed without failure, in priming
\* and in polling, and the identifier stored for its feed is the fallback value:
\* the href of its alternate text/html link, else its first link, else "No Link".
C10_FallbackIdentifier ==
  [][((PollStep \/ PrimeStep) /\ HasItem /\ Fetched.link = Missing)
       => /\ pc' # "crashed"
          /\ Get(last_entries', UrlOf(ev'.feed)) = EntryUrl(Fetched)]_vars

\* C11: a save that fails, after priming or in a polling step, does not end the
\* process: main goes on with the next feed of the cycle, or with the sleep
\* after the last feed, and with polling after the save that ends priming.
C11_SaveFailureSurvived ==
  [][(ev'.save \notin {"none", "ok"})
       => /\ pc' # "crashed"
          /\ ev'.op = "prime_save" => pc' = "poll"
          /\ PollStep => IF i < NumFeeds THEN pc' = "poll" /\ i' = i + 1
                         ELSE pc' = "sleep"]_vars

\* The state file holds a JSON object: a valid structured mapping.
ValidMapping(f) == f.kind = "json" /\ IsDict(f.value)

\* C12: load leaves the empty mapping when the file is absent and when its
\* content is not a valid mapping, and the process does not fail for it: the
\* startup goes on and no priming step ends the process because of the mapping
\* that was loaded.
C12_CorruptStateDiscarded ==
  [][/\ (ev'.op = "load" /\ ~ValidMapping(file))
          => (last_entries' = EmptyDict /\ pc' = "summary")
     /\ (PrimeStep /\ ~(HasItem /\ Fetched.link = Missing)) => pc' # "crashed"]_vars

\* What one character of the text becomes in the preview.
EscapedChar(c) == IF c = "<" THEN Lt ELSE IF c = ">" THEN Gt ELSE <<c>>

\* The characters a..b of s, each one escaped.
RECURSIVE EscapedRange(_, _, _)
EscapedRange(s, a, b) ==
  IF a > b THEN <<>>
  ELSE IF a = b THEN EscapedChar(s[a])
  ELSE EscapedRange(s, a, (a + b) \div 2) \o EscapedRange(s, (a + b) \div 2 + 1, b)

\* C13: the preview of a text longer than 200 characters is the first 200
\* characters of the text, each '<' and '>' among them replaced by its escaped
\* form, and "..."; no character after the 200th has a part in it and the
\* preview holds no raw '<' or '>'.
C13_TruncateThenEscape ==
  (pc = "formatted" /\ Len(EntryContent(preview_entry)) > PreviewLimit)
    => /\ preview = EscapedRange(EntryContent(preview_entry), 1, PreviewLimit) \o Dots
       /\ \A k \in 1..Len(preview) : preview[k] \notin {"<", ">"}

\* A text of more than 200 characters, whose 200th character is '<' and whose
\* 201st is '>', has been formatted.
C13_Witness ==
  /\ pc = "formatted"
  /\ Len(EntryContent(preview_entry)) > PreviewLimit
  /\ EntryContent(preview_entry)[PreviewLimit] = "<"
  /\ EntryContent(preview_entry)[PreviewLimit + 1] = ">"
  /\ Len(preview) = PreviewLimit + 6

Stored(k) == Get(last_entries, UrlOf(k))
Proceeds == IF i < NumFeeds THEN pc' = "poll" /\ i' = i + 1 ELSE pc' = "sleep" /\ i' = 1

InPolling == pc \in {"poll", "sleep"}

\* C15: once the polling loop is entered the process stays in it whatever is
\* fetched, whatever the sends return and whatever the saves do: every step
\* taken in polling leads to the next feed, the sleep or the next cycle, and
\* only a stop from outside ends it.
C15_PollingNeverLeft ==
  [][InPolling => (InPolling' \/ ev'.op = "restart")]_vars

\* How far main() has got: the self-test, the load, the summary, priming, the
\* save that ends priming, polling, and the end of the process.
Rank(p) ==
  CASE p = "test" -> 0
    [] p = "load" -> 1
    [] p = "summary" -> 2
    [] p = "prime" -> 3
    [] p = "prime_save" -> 4
    [] p \in {"poll", "sleep"} -> 5
    [] OTHER -> 6

\* C16: within one run main never goes back (self-test, load, priming,
\* polling); the load follows a self-test that succeeded and precedes every
\* fetch; priming fetches feed 1 after the summary and feed k+1 right after
\* feed k, the save that ends priming follows the priming of the last feed and
\* polling starts after it; a polling cycle fetches feed 1 after that save or
\* after a sleep and feed k+1 right after feed k, and the sleep follows the
\* polling of the last feed.
C16_StartupOrder ==
  [][ev'.op # "restart" =>
       /\ Rank(pc') >= Rank(pc)
       /\ ev'.op = "load" => (ev.op = "test" /\ ev.sent[1].ok /\ ~run.fetched)
       /\ (PrimeStep \/ PollStep) => (run.loaded /\ ev'.feed = i)
       /\ PrimeStep => IF i = 1 THEN ev.op = "summary"
                       ELSE ev.op = "prime" /\ ev.feed = i - 1
       /\ ev'.op = "summary" => ev.op = "load"
       /\ ev'.op = "prime_save" => (ev.op = "prime" /\ ev.feed = NumFeeds)
       /\ PollStep => IF i = 1 THEN ev.op \in {"prime_save", "sleep"}
                      ELSE ev.op = "poll" /\ ev.feed = i - 1
       /\ ev'.op = "sleep" => (ev.op = "poll" /\ ev.feed = NumFeeds)
       /\ pc' = "sleep" => (PollStep /\ i = NumFeeds)]_vars

\* A run has passed the self-test, loaded the file, primed every feed, saved,
\* completed a polling cycle and slept: the next cycle is about to start.
C16_Witness ==
  /\ ev.op = "sleep" /\ pc = "poll" /\ i = 1
  /\ run.loaded /\ run.fetched /\ run.written

\* C17: a priming step that fetched an item sends one startup confirmation for
\* it whatever identifier was loaded for the feed; a priming step that fetched
\* no item leaves the absent value stored for the feed, in place of what the
\* loaded mapping held; and a polling step that fetches an item for a feed whose stored
\* identifier is absent sends a notification for it, whatever the item is.
C17_PrimingAnnouncesAndBaselines ==
  [][/\ (PrimeStep /\ HasItem)
          => /\ Len(ev'.sent) = 1
             /\ ev'.sent[1].kind = "confirm"
             /\ ev'.sent[1].url = EntryUrl(Fetched)
     /\ (PrimeStep /\ ~HasItem /\ IsDict(last_entries))
          => /\ UrlOf(i) \in DOMAIN last_entries'
             /\ last_entries'[UrlOf(i)] = None
     /\ (PollStep /\ HasItem /\ Stored(i) = None)
          => /\ Len(ev'.sent) = 1
             /\ ev'.sent[1].url = EntryUrl(Fetched)]_vars

PrimingDone == pc = "prime_save" \/ run.written
SameStored(m, n) == \A k \in FeedIdx : Get(m, UrlOf(k)) = Get(n, UrlOf(k))
ItemMessages(sent) == IF sent # <<>> /\ sent[1].kind \in {"confirm", "item"} THEN sent ELSE <<>>

ForeignKeys(m) == IF IsDict(m) THEN DOMAIN m \ FeedUrls ELSE {}
\* The step leaves every key of the mapping but that of feed k as it is.
OnlyFeedChanged(k) ==
  /\ DOMAIN last_entries' \subseteq DOMAIN last_entries \cup {UrlOf(k)}
  /\ \A u \in DOMAIN last_entries \ {UrlOf(k)} :
       u \in DOMAIN last_entries' /\ last_entries'[u] = last_entries[u]
\* The file after the step holds every foreign key of the mapping, with its value.
ForeignKeysWritten ==
  \A u \in ForeignKeys(last_entries) :
    /\ file'.kind = "json"
    /\ u \in DOMAIN file'.value
    /\ Parse(file'.value)[u] = last_entries[u]

\* C19: a priming or polling step for feed F changes no key of the mapping
\* but that of F; no step after the load changes a key that is no configured
\* feed; and after every call of save the file holds each of those keys with
\* the value that was loaded.
C19_FrameAndForeignKeys ==
  [][/\ (PrimeStep \/ PollStep) => OnlyFeedChanged(i)
     /\ ev'.op \notin {"load", "restart"} =>
          \A u \in ForeignKeys(last_entries) :
            u \in DOMAIN last_entries' /\ last_entries'[u] = last_entries[u]
     /\ ev'.save # "none" => ForeignKeysWritten]_vars

\* C20: when a polling cycle is about to start and when main sleeps between
\* two cycles (every save of the run has then succeeded), the state file holds
\* exactly the mapping in memory, and every configured feed is a key of it.
C20_FileMirrorsMapping ==
  (pc = "sleep" \/ (pc = "poll" /\ i = 1))
    => /\ IsDict(last_entries)
       /\ file.kind = "json" /\ IsDict(file.value)
       /\ Parse(file.value) = last_entries
       /\ FeedUrls \subseteq DOMAIN last_entries

\* Main sleeps after a cycle in which the last feed's new link was saved; the
\* first feed has the absent value and the mapping holds a key that is no feed.
C20_Witness ==
  /\ pc = "sleep" /\ ev.op = "poll" /\ ev.save = "ok"
  /\ OtherUrl \in DOMAIN last_entries
  /\ Get(last_entries, UrlOf(1)) = None
  /\ Get(last_entries, UrlOf(NumFeeds)) \in Links
====
